---- MODULE Spec2Model ----
(***************************************************************************)
(* Model of the sample pipeline of treeagent (src/samples.go):             *)
(*   RolloutSamples -> [Uint8Samples ->] AllSamples                        *)
(* Each stage is a goroutine; stages are connected by channels of          *)
(* capacity 1.  Numbers: a feature value x is stored as the integer 2*x    *)
(* ("halves"), so that 1.5 is 3 and 255 is 510; an 8-bit feature is stored *)
(* as the byte itself.  Advantages are stored in tenths (1.0 is 10).       *)
(***************************************************************************)
EXTENDS Integers, Sequences, FiniteSets, TLC

\* ---------------------------------------------------------------- bounds
NumLanes == 2
MaxSteps == 2
\* iterations of the training loop of experiments/muniverse/main.go
MaxBatches == 2

\* make(chan Sample, 1)
ChanCapTwo == 1 + 1
ChanCap == 1

Lanes == 0 .. (NumLanes - 1)

\* ------------------------------------------------------- rollout batches
\* The (feature vector, action distribution) data one lane contributes to
\* one timestep.  Features in halves: 0, 255, 1.5, 256, -1 ...
Cells ==
  << [features |-> <<0, 510>>,  dist |-> <<1, 0, 0>>],
     [features |-> <<510, 2>>,  dist |-> <<0, 1, 1>>],
     [features |-> <<3, 0>>,    dist |-> <<0, 0, 1>>],
     [features |-> <<512, -2>>, dist |-> <<1, 1, 1>>] >>

Variants == 0 .. (Len(Cells) - 1)

CellOf(v, l, t) == Cells[((l + NumLanes * t + v) % Len(Cells)) + 1]

\* presence masks: Present[lane + 1]
Masks == { m \in [1 .. NumLanes -> BOOLEAN] : \E k \in 1 .. NumLanes : m[k] }

RECURSIVE Concat(_)
Concat(ss) == IF ss = << >> THEN << >> ELSE Head(ss) \o Concat(Tail(ss))

\* the present lanes of a mask among lanes 0 .. n-1, in ascending order
RECURSIVE PresentLanes(_, _)
PresentLanes(m, n) ==
  IF n = 0 THEN << >>
  ELSE IF m[n] THEN Append(PresentLanes(m, n - 1), n - 1)
       ELSE PresentLanes(m, n - 1)

\* anyseq.Batch of observations at timestep t (0-based): the present lanes'
\* features packed in lane order
InputBatch(v, m, t) ==
  LET ls == PresentLanes(m, NumLanes)
  IN [Present |-> m,
      Packed  |-> Concat([k \in 1 .. Len(ls) |-> CellOf(v, ls[k], t).features])]

\* anyseq.Batch of action distributions at timestep t
OutputBatch(v, m, t) ==
  LET ls == PresentLanes(m, NumLanes)
  IN [Present |-> m,
      Packed  |-> Concat([k \in 1 .. Len(ls) |-> CellOf(v, ls[k], t).dist])]

MaskSeqs == UNION { [1 .. n -> Masks] : n \in 0 .. MaxSteps }

\* anyrl.Rewards: advantages[lane][timestep], in tenths
IndexTable == [l \in Lanes |-> [t \in 1 .. MaxSteps |-> 100 * (l + 1) + t]]

ExampleTable ==
  [l \in Lanes |-> IF l = 0 THEN <<10, 5>> ELSE IF l = 1 THEN <<-2>> ELSE << >>]

AdvTables == {IndexTable, ExampleTable}

\* the table covers every (lane, timestep) the rollout marks present
Covers(tab, ms) ==
  \A t \in 1 .. Len(ms) : \A l \in Lanes : ms[t][l + 1] => t <= Len(tab[l])

VARIABLES
  variant,     \* which data the rollout was filled with (never read by a stage)
  inputs,      \* r.Inputs tape: sequence of observation batches
  outputs,     \* r.Actions tape: sequence of action-distribution batches
  advantages,  \* anyrl.Rewards
  pipeline,    \* "direct": AllSamples(RolloutSamples(..));
               \* "uint8":  AllSamples(Uint8Samples(n, RolloutSamples(..)))
  numFeatures, \* Uint8Samples' numFeatures argument
  rsPc,        \* RolloutSamples goroutine: "range" | "lanes" | "done"
  inPos,       \* batches received from inChan so far
  timestep,    \* RolloutSamples' timestep counter
  lane,        \* index of the range over input.Present
  i,           \* RolloutSamples' i
  rsRes,       \* RolloutSamples' res channel: [buf, closed, closes]
  rsSent,      \* history: everything sent on rsRes
  u8Pc,        \* Uint8Samples goroutine: "idle" | "range" | "send" | "done"
  sample,      \* Uint8Samples' sample, while it waits to be sent
  u8Res,       \* Uint8Samples' res channel
  u8Sent,      \* history: everything sent on u8Res
  allPc,       \* consumer: "range" | "returned" | "abandoned"
  allRes,      \* AllSamples' res slice
  trainPc,     \* main.go training goroutine: "gather" | "stream" | "build" |
               \* "lock" | "save" | "unlock"
  mainPc,      \* main.go main goroutine: "wait" | "lock" | "return" | "exited"
  trainLock,   \* who holds trainLock: "free" | "train" | "main"
  batchIdx,    \* batchIdx of the training loop
  saves,       \* history: policy files written so far
  sigPhase,    \* history: trainPc when the shutdown signal arrived
  sigSaves     \* history: saves when the shutdown signal arrived

vars == <<variant, inputs, outputs, advantages, pipeline, numFeatures, rsPc, inPos,
          timestep, lane, i, rsRes, rsSent, u8Pc, sample, u8Res, u8Sent,
          allPc, allRes, trainPc, mainPc, trainLock, batchIdx, saves,
          sigPhase, sigSaves>>

rollout == <<variant, inputs, outputs, advantages, pipeline, numFeatures>>
rsVars  == <<rsPc, inPos, timestep, lane, i, rsRes, rsSent>>
u8Vars  == <<u8Pc, sample, u8Res, u8Sent>>
allVars == <<allPc, allRes>>
mainVars == <<trainPc, mainPc, trainLock, batchIdx, saves, sigPhase, sigSaves>>

\* ----------------------------------------------------------- channels
NewChan == [buf |-> << >>, closed |-> FALSE, closes |-> 0]
CanSendAlways(ch) == TRUE
CanSend(ch) == Len(ch.buf) < ChanCap
Send(ch, s) == [ch EXCEPT !.buf = Append(@, s)]
CanRecv(ch) == ch.buf # << >>
Recv(ch) == [ch EXCEPT !.buf = Tail(@)]
\* a range over the channel ends: nothing buffered and the channel is closed
Ended(ch) == ch.buf = << >> /\ ch.closed
Close(ch) == [ch EXCEPT !.closed = TRUE, !.closes = @ + 1]

\* ------------------------------------------------------------ samples
\* vecToFloats: the packed vector's elements widened to float64
vecToFloats(packed) == [k \in 1 .. Len(packed) |-> packed[k]]

\* input.NumPresent()
NumPresent(b) == Cardinality({k \in 1 .. Len(b.Present) : b.Present[k]})

\* anyvec.MaxIndex: index (0-based) of the first maximum
MaxIndex(v) ==
  (CHOOSE k \in 1 .. Len(v) :
     /\ \A j \in 1 .. Len(v) : v[j] <= v[k]
     /\ \A j \in 1 .. (k - 1) : v[j] < v[k]) - 1

\* s[from:to], 0-based, to exclusive
Slice(s, from, to) == SubSeq(s, from + 1, to)

\* the batches of the current loop iteration
input  == inputs[inPos]
output == outputs[inPos]
\* the `pres` of: for lane, pres := range input.Present
presInverted == ~input.Present[lane + 1]
pres == input.Present[lane + 1]
inValues == vecToFloats(input.Packed)
batch == NumPresent(input)
featuresPerLane == Len(inValues) \div batch
numActions == Len(output.Packed) \div batch

subInsUnscaled == Slice(inValues, i, i + featuresPerLane)
subIns == Slice(inValues, i * featuresPerLane, (i + 1) * featuresPerLane)
subOutsUnscaled == Slice(output.Packed, i, i + numActions)
subOuts == Slice(output.Packed, i * numActions, (i + 1) * numActions)
action == MaxIndex(subOuts)
AdvantageByRank(l, t) == advantages[i][t + 1]
AdvantageAt(l, t) == advantages[l][t + 1]

\* &memorySample{...}; src is the (lane, batch index) it was made from
memorySample ==
  [kind |-> "memory", features |-> subIns, action |-> action,
   advantage |-> AdvantageAt(lane, timestep), src |-> <<lane, inPos - 1>>]

\* float64 -> uint8: truncation toward zero when the truncated value fits;
\* otherwise the result is implementation-dependent (wraparound or
\* saturation, depending on the target)
Trunc(h) == IF h >= 0 THEN h \div 2 ELSE -((-h) \div 2)
Int8Outcomes(h) ==
  LET n == Trunc(h)
  IN IF n \in -128 .. 127 THEN {n}
     ELSE {((n + 128) % 256) - 128, IF n < 0 THEN -128 ELSE 127}
Uint8Outcomes(h) ==
  LET n == Trunc(h)
  IN IF n \in 0 .. 255 THEN {n}
     ELSE {n % 256, IF n < 0 THEN 0 ELSE 255}

\* Sample.Feature(idx), Action(), Advantage()
Feature(s, idx) ==
  IF s.kind = "memory" THEN s.features[idx + 1] ELSE 2 * s.features[idx + 1]
Action(s) == s.action
Advantage(s) == s.advantage

uint8SampleNoAction(in, fs) ==
  [kind |-> "uint8", features |-> fs, action |-> 0,
   advantage |-> Advantage(in), src |-> in.src]
\* the uint8Sample built from `in` with converted features fs
uint8Sample(in, fs) ==
  [kind |-> "uint8", features |-> fs, action |-> Action(in),
   advantage |-> Advantage(in), src |-> in.src]

Uint8FeaturesFullWidth(in, n) ==
  LET w == Len(in.features)
      bytes == UNION { Uint8Outcomes(Feature(in, k - 1)) : k \in 1 .. w }
  IN { fs \in [1 .. w -> bytes] :
         \A k \in 1 .. w : fs[k] \in Uint8Outcomes(Feature(in, k - 1)) }
\* every way the conversion loop can fill the n features
Uint8Features(in, n) ==
  LET bytes == UNION { Uint8Outcomes(Feature(in, k - 1)) : k \in 1 .. n }
  IN { fs \in [1 .. n -> bytes] :
         \A k \in 1 .. n : fs[k] \in Uint8Outcomes(Feature(in, k - 1)) }

\* ------------------------------------------------------------- Init
\* the sample pipeline on its own: main.go's goroutines are not running
MainOff ==
  /\ trainPc = "off"
  /\ mainPc = "off"
  /\ trainLock = "free"
  /\ batchIdx = 0
  /\ saves = 0
  /\ sigPhase = "none"
  /\ sigSaves = 0

DenseWidth(ms) == Len(Cells[1].features)

Init ==
  \E v \in Variants, ms \in MaskSeqs, tab \in AdvTables :
    /\ Covers(tab, ms)
    /\ variant = v
    /\ inputs = [t \in 1 .. Len(ms) |-> InputBatch(v, ms[t], t - 1)]
    /\ outputs = [t \in 1 .. Len(ms) |-> OutputBatch(v, ms[t], t - 1)]
    /\ advantages = tab
    /\ pipeline \in {"direct", "uint8"}
    /\ numFeatures = DenseWidth(ms)
    /\ rsPc = "range"
    /\ inPos = 0
    /\ timestep = 0
    /\ lane = 0
    /\ i = 0
    /\ rsRes = NewChan
    /\ rsSent = << >>
    /\ u8Pc = IF pipeline = "uint8" THEN "range" ELSE "idle"
    /\ sample = << >>
    /\ u8Res = NewChan
    /\ u8Sent = << >>
    /\ allPc = "range"
    /\ allRes = << >>
    /\ MainOff

\* --------------------------------------------------- RolloutSamples
\* for input := range inChan { output := <-outChan; ...; i := 0
RSRange ==
  /\ rsPc = "range"
  /\ inPos < Len(inputs)
  /\ inPos' = inPos + 1
  /\ lane' = 0
  /\ i' = 0
  /\ rsPc' = "lanes"
  /\ UNCHANGED <<timestep, rsRes, rsSent, rollout, mainVars, u8Vars, allVars>>

\* RSLane with a send that gives up when the buffer is full
RSLaneDropWhenFull ==
  /\ rsPc = "lanes"
  /\ lane < Len(input.Present)
  /\ \/ /\ ~pres
        /\ UNCHANGED <<i, rsRes, rsSent>>
     \/ /\ pres
        /\ IF CanSend(rsRes)
             THEN /\ rsRes' = Send(rsRes, memorySample)
                  /\ rsSent' = Append(rsSent, memorySample)
             ELSE UNCHANGED <<rsRes, rsSent>>
        /\ i' = i + 1
  /\ lane' = lane + 1
  /\ UNCHANGED <<rsPc, inPos, timestep, rollout, mainVars, u8Vars, allVars>>

\* one iteration of: for lane, pres := range input.Present
RSLane ==
  /\ rsPc = "lanes"
  /\ lane < Len(input.Present)
  /\ \/ /\ ~pres
        /\ UNCHANGED <<i, rsRes, rsSent>>
     \/ /\ pres
        /\ CanSend(rsRes)
        /\ rsRes' = Send(rsRes, memorySample)
        /\ rsSent' = Append(rsSent, memorySample)
        /\ i' = i + 1
  /\ lane' = lane + 1
  /\ UNCHANGED <<rsPc, inPos, timestep, rollout, mainVars, u8Vars, allVars>>

\* timestep++
RSNextTimestep ==
  /\ rsPc = "lanes"
  /\ lane = Len(input.Present)
  /\ timestep' = timestep + 1
  /\ rsPc' = "range"
  /\ UNCHANGED <<inPos, lane, i, rsRes, rsSent, rollout, mainVars, u8Vars, allVars>>

\* the goroutine returning without closing res
RSReturnWithoutClose ==
  /\ rsPc = "range"
  /\ inPos = Len(inputs)
  /\ rsPc' = "done"
  /\ UNCHANGED <<inPos, timestep, lane, i, rsRes, rsSent, rollout, mainVars, u8Vars,
                 allVars>>

\* inChan is exhausted: the loop ends and the deferred close(res) runs
RSClose ==
  /\ rsPc = "range"
  /\ inPos = Len(inputs)
  /\ rsRes' = Close(rsRes)
  /\ rsPc' = "done"
  /\ UNCHANGED <<inPos, timestep, lane, i, rsSent, rollout, mainVars, u8Vars, allVars>>

RolloutSamples == RSRange \/ RSLane \/ RSNextTimestep \/ RSClose

\* ----------------------------------------------------- Uint8Samples
\* the conversion loop storing the 8-bit values back into the sample it read
U8RangeInPlace ==
  /\ u8Pc = "range"
  /\ CanRecv(rsRes)
  /\ \E fs \in Uint8Features(Head(rsRes.buf), numFeatures) :
       /\ sample' = uint8Sample(Head(rsRes.buf), fs)
       /\ rsSent' = [rsSent EXCEPT ![Len(rsSent) - Len(rsRes.buf) + 1].features =
                                     [k \in 1 .. Len(fs) |-> 2 * fs[k]]]
  /\ rsRes' = Recv(rsRes)
  /\ u8Pc' = "send"
  /\ UNCHANGED <<rsPc, inPos, timestep, lane, i, u8Res, u8Sent,
                 rollout, mainVars, allVars>>

\* for in := range incoming { sample := &uint8Sample{...}; for i ... }
U8Range ==
  /\ u8Pc = "range"
  /\ CanRecv(rsRes)
  /\ \E fs \in Uint8Features(Head(rsRes.buf), numFeatures) :
       sample' = uint8Sample(Head(rsRes.buf), fs)
  /\ rsRes' = Recv(rsRes)
  /\ u8Pc' = "send"
  /\ UNCHANGED <<rsPc, inPos, timestep, lane, i, rsSent, u8Res, u8Sent,
                 rollout, mainVars, allVars>>

\* res <- sample
U8Send ==
  /\ u8Pc = "send"
  /\ CanSend(u8Res)
  /\ u8Res' = Send(u8Res, sample)
  /\ u8Sent' = Append(u8Sent, sample)
  /\ sample' = << >>
  /\ u8Pc' = "range"
  /\ UNCHANGED <<rollout, mainVars, rsVars, allVars>>

\* the loop ending as soon as nothing is buffered
U8CloseOnEmpty ==
  /\ u8Pc = "range"
  /\ rsRes.buf = << >>
  /\ u8Res' = Close(u8Res)
  /\ u8Pc' = "done"
  /\ UNCHANGED <<sample, u8Sent, rollout, mainVars, rsVars, allVars>>

\* incoming is closed and drained: the loop ends, deferred close(res) runs
U8Close ==
  /\ u8Pc = "range"
  /\ Ended(rsRes)
  /\ u8Res' = Close(u8Res)
  /\ u8Pc' = "done"
  /\ UNCHANGED <<sample, u8Sent, rollout, mainVars, rsVars, allVars>>

Uint8Samples == U8Range \/ U8Send \/ U8Close

\* ------------------------------------------------------- AllSamples
\* the channel the consumer was handed
ch == IF pipeline = "uint8" THEN u8Res ELSE rsRes

\* for s := range ch { res = append(res, s) }
ASRange ==
  /\ allPc = "range"
  /\ CanRecv(ch)
  /\ allRes' = Append(allRes, Head(ch.buf))
  /\ IF pipeline = "uint8"
       THEN u8Res' = Recv(u8Res) /\ UNCHANGED rsRes
       ELSE rsRes' = Recv(rsRes) /\ UNCHANGED u8Res
  /\ UNCHANGED <<allPc, rollout, mainVars, rsPc, inPos, timestep, lane, i, rsSent,
                 u8Pc, sample, u8Sent>>

\* returning as soon as nothing is buffered
ASReturnOnEmpty ==
  /\ allPc = "range"
  /\ ch.buf = << >>
  /\ allPc' = "returned"
  /\ UNCHANGED <<allRes, rollout, mainVars, rsVars, u8Vars>>

\* return res
ASReturn ==
  /\ allPc = "range"
  /\ Ended(ch)
  /\ allPc' = "returned"
  /\ UNCHANGED <<allRes, rollout, mainVars, rsVars, u8Vars>>

AllSamples == ASRange \/ ASReturn

\* a caller that does not read the entire channel: it stops receiving
Abandon ==
  /\ allPc = "range"
  /\ allPc' = "abandoned"
  /\ UNCHANGED <<allRes, rollout, mainVars, rsVars, u8Vars>>

Next == RolloutSamples \/ Uint8Samples \/ AllSamples \/ Abandon

Spec == Init /\ [][Next]_vars

\* goroutines are scheduled fairly; a caller is never obliged to abandon
FairSpec ==
  /\ Spec
  /\ WF_vars(RolloutSamples)
  /\ WF_vars(Uint8Samples)
  /\ WF_vars(AllSamples)

\* ------------------------------------------------ violated preconditions
\* Rollouts, tables and feature counts that break one precondition of the
\* pipeline, and the panics the stages then run into.  A panic runs the
\* goroutine's deferred close(res) and then ends the whole process; until
\* the process is gone the other goroutines keep running.
AllMasks == [1 .. NumLanes -> BOOLEAN]
AllMaskSeqs == UNION { [1 .. n -> AllMasks] : n \in 0 .. MaxSteps }
FeatureCounts == {DenseWidth(<< >>) - 1, DenseWidth(<< >>), DenseWidth(<< >>) + 1}

FaultInit ==
  \E v \in Variants, ms \in AllMaskSeqs, tab \in AdvTables,
     nOut \in 0 .. MaxSteps, nf \in FeatureCounts :
    /\ nOut <= Len(ms)
    /\ pipeline \in {"direct", "uint8"}
    /\ pipeline = "direct" => nf = DenseWidth(ms)
    \* exactly one precondition is broken
    /\ Cardinality({f \in {"actions", "empty", "table", "width"} :
          \/ f = "actions" /\ nOut < Len(ms)
          \/ f = "empty" /\ ms \notin MaskSeqs
          \/ f = "table" /\ ~Covers(tab, ms)
          \/ f = "width" /\ nf # DenseWidth(ms)}) = 1
    /\ variant = v
    /\ inputs = [t \in 1 .. Len(ms) |-> InputBatch(v, ms[t], t - 1)]
    /\ outputs = [t \in 1 .. nOut |-> OutputBatch(v, ms[t], t - 1)]
    /\ advantages = tab
    /\ numFeatures = nf
    /\ rsPc = "range"
    /\ inPos = 0
    /\ timestep = 0
    /\ lane = 0
    /\ i = 0
    /\ rsRes = NewChan
    /\ rsSent = << >>
    /\ u8Pc = IF pipeline = "uint8" THEN "range" ELSE "idle"
    /\ sample = << >>
    /\ u8Res = NewChan
    /\ u8Sent = << >>
    /\ allPc = "range"
    /\ allRes = << >>
    /\ MainOff

\* the next batch can be unpacked: outChan still delivers a batch (else
\* output is nil and output.Packed panics) and batch is not 0 (else the
\* division panics)
RangeOkIgnoringEmpty == inPos < Len(outputs)
RangeOk == inPos < Len(outputs) /\ NumPresent(inputs[inPos + 1]) # 0

\* advantages[lane][timestep] is in range
AdvantageOk == timestep < Len(advantages[lane])

\* in.Feature(i) is in range for every i < numFeatures
FeatureOk == numFeatures <= Len(Head(rsRes.buf).features)

RSRangeChecked == rsPc = "range" /\ inPos < Len(inputs) /\ RangeOk /\ RSRange

RSRangeSkipTimestep ==
  /\ rsPc = "range"
  /\ inPos < Len(inputs)
  /\ ~RangeOk
  /\ inPos' = inPos + 1
  /\ timestep' = timestep + 1
  /\ UNCHANGED <<rsPc, rsRes, lane, i, rsSent, rollout, mainVars, u8Vars,
                 allVars>>
\* output.Packed of a nil batch, or the division by a batch of 0
RSRangePanic ==
  /\ rsPc = "range"
  /\ inPos < Len(inputs)
  /\ ~RangeOk
  /\ inPos' = inPos + 1
  /\ rsRes' = Close(rsRes)
  /\ rsPc' = "panic"
  /\ UNCHANGED <<timestep, lane, i, rsSent, rollout, mainVars, u8Vars, allVars>>

RSLaneChecked ==
  /\ rsPc = "lanes"
  /\ lane < Len(input.Present)
  /\ pres => AdvantageOk
  /\ RSLane

\* advantages[lane][timestep] out of range, while the sample is built
RSLanePanic ==
  /\ rsPc = "lanes"
  /\ lane < Len(input.Present)
  /\ pres
  /\ ~AdvantageOk
  /\ rsRes' = Close(rsRes)
  /\ rsPc' = "panic"
  /\ UNCHANGED <<inPos, timestep, lane, i, rsSent, rollout, mainVars, u8Vars,
                 allVars>>

U8RangeChecked == u8Pc = "range" /\ CanRecv(rsRes) /\ FeatureOk /\ U8Range

\* m.features[idx] out of range in the conversion loop
U8RangePanic ==
  /\ u8Pc = "range"
  /\ CanRecv(rsRes)
  /\ ~FeatureOk
  /\ rsRes' = Recv(rsRes)
  /\ u8Res' = Close(u8Res)
  /\ u8Pc' = "panic"
  /\ UNCHANGED <<rsPc, inPos, timestep, lane, i, rsSent, sample, u8Sent,
                 rollout, mainVars, allVars>>

\* the runtime ends the process after an unrecovered panic
Killed(pc) ==
  IF pc = "panic" THEN "exit"
  ELSE IF pc \in {"done", "returned", "idle"} THEN pc ELSE "killed"

ProcessExit ==
  /\ rsPc = "panic" \/ u8Pc = "panic"
  /\ rsPc' = Killed(rsPc)
  /\ u8Pc' = Killed(u8Pc)
  /\ allPc' = Killed(allPc)
  /\ UNCHANGED <<inPos, timestep, lane, i, rsRes, rsSent, sample, u8Res,
                 u8Sent, allRes, rollout, mainVars>>

FaultNext ==
  \/ RSRangeChecked \/ RSRangePanic \/ RSLaneChecked \/ RSLanePanic
  \/ RSNextTimestep \/ RSClose
  \/ U8RangeChecked \/ U8RangePanic \/ U8Send \/ U8Close
  \/ AllSamples
  \/ ProcessExit

FaultSpec == FaultInit /\ [][FaultNext]_vars

\* ------------------------------------- experiments/muniverse/main.go
\* the training loop and the shutdown of main(), with the sample pipeline
\* of one batch as the single step "stream"
StagesOff ==
  /\ variant = 0
  /\ inputs = << >>
  /\ outputs = << >>
  /\ advantages = IndexTable
  /\ pipeline = "uint8"
  /\ numFeatures = 0
  /\ rsPc = "off"
  /\ inPos = 0
  /\ timestep = 0
  /\ lane = 0
  /\ i = 0
  /\ rsRes = NewChan
  /\ rsSent = << >>
  /\ u8Pc = "off"
  /\ sample = << >>
  /\ u8Res = NewChan
  /\ u8Sent = << >>
  /\ allPc = "off"
  /\ allRes = << >>

stages == <<rollout, rsVars, u8Vars, allVars>>

MainInit ==
  /\ StagesOff
  /\ trainPc = "gather"
  /\ mainPc = "wait"
  /\ trainLock = "free"
  /\ batchIdx = 0
  /\ saves = 0
  /\ sigPhase = "none"
  /\ sigSaves = 0

\* the process is gone once main() has returned
Running == mainPc # "exited"

\* experiments.GatherRolloutsMuniverse(...), log
TrainGather ==
  /\ Running
  /\ trainPc = "gather"
  /\ batchIdx < MaxBatches
  /\ trainPc' = "stream"
  /\ UNCHANGED <<mainPc, trainLock, batchIdx, saves, sigPhase, sigSaves, stages>>

\* JudgeActions, RolloutSamples, Uint8Samples, AllSamples: the stream is drained
TrainStream ==
  /\ Running
  /\ trainPc = "stream"
  /\ trainPc' = "build"
  /\ UNCHANGED <<mainPc, trainLock, batchIdx, saves, sigPhase, sigSaves, stages>>

\* builder.Build, SignTree, roller.Policy.Add
TrainBuild ==
  /\ Running
  /\ trainPc = "build"
  /\ trainPc' = "lock"
  /\ UNCHANGED <<mainPc, trainLock, batchIdx, saves, sigPhase, sigSaves, stages>>

\* the training goroutine going on without taking trainLock
TrainLockSkipped ==
  /\ Running
  /\ trainPc = "lock"
  /\ trainPc' = "save"
  /\ UNCHANGED <<mainPc, trainLock, batchIdx, saves, sigPhase, sigSaves, stages>>

\* trainLock.Lock() of the training goroutine
TrainLock ==
  /\ Running
  /\ trainPc = "lock"
  /\ trainLock = "free"
  /\ trainLock' = "train"
  /\ trainPc' = "save"
  /\ UNCHANGED <<mainPc, batchIdx, saves, sigPhase, sigSaves, stages>>

\* json.Marshal, ioutil.WriteFile
TrainSave ==
  /\ Running
  /\ trainPc = "save"
  /\ saves' = saves + 1
  /\ trainPc' = "unlock"
  /\ UNCHANGED <<mainPc, trainLock, batchIdx, sigPhase, sigSaves, stages>>

\* trainLock.Unlock(); batchIdx++
TrainUnlock ==
  /\ Running
  /\ trainPc = "unlock"
  /\ trainLock' = "free"
  /\ batchIdx' = batchIdx + 1
  /\ trainPc' = "gather"
  /\ UNCHANGED <<mainPc, saves, sigPhase, sigSaves, stages>>

\* <-rip.NewRIP().Chan(): the shutdown signal arrives
MainSignal ==
  /\ mainPc = "wait"
  /\ mainPc' = "lock"
  /\ sigPhase' = trainPc
  /\ sigSaves' = saves
  /\ UNCHANGED <<trainPc, trainLock, batchIdx, saves, stages>>

\* main() going on without waiting for trainLock
MainLockBarging ==
  /\ mainPc = "lock"
  /\ mainPc' = "return"
  /\ UNCHANGED <<trainPc, trainLock, batchIdx, saves, sigPhase, sigSaves, stages>>

\* trainLock.Lock() of main()
MainLock ==
  /\ mainPc = "lock"
  /\ trainLock = "free"
  /\ trainLock' = "main"
  /\ mainPc' = "return"
  /\ UNCHANGED <<trainPc, batchIdx, saves, sigPhase, sigSaves, stages>>

\* main() returns: the program exits, whatever the training goroutine does
MainReturn ==
  /\ mainPc = "return"
  /\ mainPc' = "exited"
  /\ UNCHANGED <<trainPc, trainLock, batchIdx, saves, sigPhase, sigSaves, stages>>

Training ==
  TrainGather \/ TrainStream \/ TrainBuild \/ TrainLock \/ TrainSave \/ TrainUnlock

MainNext == Training \/ MainSignal \/ MainLock \/ MainReturn

MainSpec == MainInit /\ [][MainNext]_vars

\* ------------------------------------------------------------ claims
\* the present (lane, timestep) pairs of the rollout batch, timestep-major
\* and lane-minor, read off the presence masks
PresentPairs ==
  Concat([t \in 1 .. Len(inputs) |->
            LET ls == PresentLanes(inputs[t].Present, NumLanes)
            IN [k \in 1 .. Len(ls) |-> <<ls[k], t - 1>>]])

\* the rollout's data for the (lane, timestep) pair a sample was made from
CellAt(p) == CellOf(variant, p[1], p[2])

SrcsOf(ss) == [n \in 1 .. Len(ss) |-> ss[n].src]
IsPrefix(a, b) == Len(a) <= Len(b) /\ a = SubSeq(b, 1, Len(a))

\* C1: the samples sent by RolloutSamples, and those a consumer has received
\* from it so far, are in timestep-major, lane-minor order: the n-th one is
\* derived from the n-th present (lane, timestep) pair, in every reachable
\* state of every interleaving.
C1_TimestepMajorOrder ==
  /\ IsPrefix(SrcsOf(rsSent), PresentPairs)
  /\ pipeline = "direct" => IsPrefix(SrcsOf(allRes), PresentPairs)

C1_Witness ==
  /\ pipeline = "direct"
  /\ allPc = "returned"
  /\ Len(inputs) = 2
  /\ Len(allRes) = 3
  /\ ~inputs[1].Present[1]

\* C2: every sample RolloutSamples produced carries advantages[lane][timestep]
\* of the pair it was derived from (lane the index in the presence mask); in
\* the scenario with lane 1 absent at t=1 and the table
\* {0:{0:1.0,1:0.5},1:{0:-0.2}} the drained advantages are [1.0, -0.2, 0.5].
ExampleScenario ==
  /\ advantages = ExampleTable
  /\ Len(inputs) = 2
  /\ inputs[1].Present = [k \in 1 .. NumLanes |-> k <= 2]
  /\ inputs[2].Present = [k \in 1 .. NumLanes |-> k = 1]

C2_AdvantageOfPair ==
  /\ \A n \in 1 .. Len(rsSent) :
       Advantage(rsSent[n]) = advantages[rsSent[n].src[1]][rsSent[n].src[2] + 1]
  /\ (ExampleScenario /\ allPc = "returned") =>
       [n \in 1 .. Len(allRes) |-> Advantage(allRes[n])] = <<10, -2, 5>>

C2_Witness ==
  /\ ExampleScenario
  /\ allPc = "returned"
  /\ [n \in 1 .. Len(allRes) |-> Advantage(allRes[n])] = <<10, -2, 5>>

IsFirstMax(d, a) ==
  /\ a \in 0 .. (Len(d) - 1)
  /\ \A j \in 1 .. Len(d) : d[j] <= d[a + 1]
  /\ \A j \in 1 .. a : d[j] < d[a + 1]

C5_TranscoderOneToOne ==
  pipeline = "uint8" =>
    /\ Len(u8Sent) <= Len(rsSent)
    /\ \A k \in 1 .. Len(u8Sent) :
         /\ Action(u8Sent[k]) = Action(rsSent[k])
         /\ Advantage(u8Sent[k]) = Advantage(rsSent[k])
         /\ u8Sent[k].src = rsSent[k].src
    /\ IsPrefix(allRes, u8Sent)
    /\ u8Pc = "done" => Len(u8Sent) = Len(rsSent)
    /\ allPc = "returned" =>
         /\ Len(allRes) = Len(rsSent)
         /\ \A k \in 1 .. Len(allRes) :
              /\ Action(allRes[k]) = Action(rsSent[k])
              /\ Advantage(allRes[k]) = Advantage(rsSent[k])

C5_Witness ==
  /\ pipeline = "uint8"
  /\ allPc = "returned"
  /\ Len(allRes) = 4
  /\ \E k \in 1 .. Len(allRes) : Action(allRes[k]) = 2
  /\ \E k \in 1 .. Len(allRes) : Action(allRes[k]) = 0

\* C6: for an input sample whose features are all integers in [0,255], the
\* sample Uint8Samples makes of it returns the same Feature(idx) for every
\* idx in [0, numFeatures).
InByteDomain(h) == h % 2 = 0 /\ h \div 2 \in 0 .. 255

C6_InRangeFeaturesExact ==
  pipeline = "uint8" =>
    \A k \in 1 .. Len(u8Sent) :
      (\A idx \in 0 .. (numFeatures - 1) : InByteDomain(Feature(rsSent[k], idx)))
        => \A idx \in 0 .. (numFeatures - 1) :
             Feature(u8Sent[k], idx) = Feature(rsSent[k], idx)

C6_Witness ==
  /\ pipeline = "uint8"
  /\ \E k \in 1 .. Len(allRes) :
       /\ allRes[k].kind = "uint8"
       /\ \A idx \in 0 .. (numFeatures - 1) : InByteDomain(Feature(rsSent[k], idx))
       /\ Feature(allRes[k], 0) = 510
       /\ Feature(allRes[k], 1) = 2

\* C7: AllSamples collects the samples in the order they are received, every
\* one of them and nothing else; it returns only once the channel is closed,
\* and then holds everything that was sent (nothing, if nothing was).
chSent == IF pipeline = "uint8" THEN u8Sent ELSE rsSent

C7_AllSamplesDrains ==
  /\ allRes \o ch.buf = chSent
  /\ allPc = "returned" => (ch.closed /\ allRes = chSent)

C7_Witness ==
  /\ allPc = "returned"
  /\ pipeline = "direct"
  /\ ch.closed
  /\ Len(allRes) = 2
  /\ allRes = rsSent

\* C8: with lockstep streams and a consumer that keeps receiving,
\* RolloutSamples sends its last sample, the observation tape is exhausted,
\* the channel is closed exactly once, the goroutine ends and
\* AllSamples(RolloutSamples(..)) returns.
RSFinished ==
  /\ rsPc = "done"
  /\ inPos = Len(inputs)
  /\ rsRes.closed
  /\ rsRes.closes = 1
  /\ Len(rsSent) = Len(PresentPairs)

C8_GeneratorTerminates ==
  (pipeline = "direct") =>
    <>(allPc = "abandoned" \/ (RSFinished /\ allPc = "returned"))

C8_Witness ==
  /\ pipeline = "direct"
  /\ RSFinished
  /\ allPc = "returned"
  /\ Len(allRes) = 4

\* C9: the goroutine of the stage whose channel the consumer abandoned
StageDone == IF pipeline = "uint8" THEN u8Pc = "done" ELSE rsPc = "done"
StageBlockedOnSend ==
  IF pipeline = "uint8"
    THEN u8Pc = "send" /\ ~CanSend(u8Res)
    ELSE rsPc = "lanes" /\ lane < Len(input.Present) /\ pres /\ ~CanSend(rsRes)
NotReceived == Len(PresentPairs) - Len(allRes)

\* C9 as stated: a consumer that stops before it received every sample leaves
\* the stage's goroutine unterminated and its channel open.
C9_LeakWheneverShort ==
  (allPc = "abandoned" /\ NotReceived >= 1) => (~StageDone /\ ~ch.closed)

\* C9, amended: a consumer that stops while at least two samples of the
\* sequence are not yet received leaks the stage's goroutine: it never
\* terminates, never closes its channel, and ends up blocked on a send for
\* ever.  (A single outstanding sample fits the channel's buffer.)
C9_LeakWhenTwoOutstanding ==
  /\ []((allPc = "abandoned" /\ NotReceived >= 2) => (~StageDone /\ ~ch.closed))
  /\ []((allPc = "abandoned" /\ NotReceived >= 2) => <>[]StageBlockedOnSend)

C9_Witness ==
  /\ allPc = "abandoned"
  /\ NotReceived = 2
  /\ StageBlockedOnSend

\* C10: in Uint8Samples(n, RolloutSamples(..)) the output channel is closed
\* only after the incoming channel was closed and every incoming sample was
\* received; a consumer that reads the output until it is closed ends both
\* goroutines, and never touches the incoming channel itself.
C10_DrainingOutputDrainsIncoming ==
  /\ []((pipeline = "uint8" /\ u8Res.closed) =>
          (Ended(rsRes) /\ rsPc = "done" /\ Len(u8Sent) = Len(rsSent)))
  /\ (pipeline = "uint8") =>
       <>(allPc = "abandoned"
            \/ (allPc = "returned" /\ u8Pc = "done" /\ rsPc = "done"))
  /\ [][(pipeline = "uint8" /\ allVars' # allVars) => rsRes' = rsRes]_vars

C10_Witness ==
  /\ pipeline = "uint8"
  /\ allPc = "returned"
  /\ u8Pc = "done"
  /\ rsPc = "done"
  /\ Ended(rsRes)
  /\ Len(allRes) = 3

\* C11: the samples a stage has created and its consumer has not received:
\* those in the channel buffer, and the one its goroutine holds while it is
\* blocked on the send
RSHolding ==
  rsPc = "lanes" /\ lane < Len(input.Present) /\ pres /\ ~CanSend(rsRes)
RSInFlight == Len(rsRes.buf) + (IF RSHolding THEN 1 ELSE 0)
U8InFlight == Len(u8Res.buf) + (IF u8Pc = "send" THEN 1 ELSE 0)

\* C11 as stated: in every reachable state each stream stage holds at most
\* one in-flight sample.
C11_AtMostOneInFlight == RSInFlight <= 1 /\ U8InFlight <= 1

\* C11, amended: in every reachable state each stream stage holds at most two
\* in-flight samples: at most one in its capacity-1 channel buffer and at
\* most one more held by its goroutine blocked on the send.
C11_AtMostTwoInFlight ==
  /\ Len(rsRes.buf) <= ChanCap
  /\ Len(u8Res.buf) <= ChanCap
  /\ RSInFlight <= ChanCap + 1
  /\ U8InFlight <= ChanCap + 1

C11_Witness == RSInFlight = 2 /\ U8InFlight = 2

\* C15: the collection drained from RolloutSamples is a function of the
\* rollout batch and the advantage table alone: whatever the interleaving,
\* it is the list of (features, action, advantage) of the present pairs, so
\* two drains over identical rollouts are element-wise equal.
TripleOf(s) ==
  <<[k \in 1 .. Len(s.features) |-> Feature(s, k - 1)], Action(s), Advantage(s)>>
ExpectedTriple(p) ==
  <<CellAt(p).features,
    CHOOSE a \in 0 .. (Len(CellAt(p).dist) - 1) : IsFirstMax(CellAt(p).dist, a),
    advantages[p[1]][p[2] + 1]>>

C15_DrainDeterminedByRollout ==
  (pipeline = "direct" /\ allPc = "returned") =>
    [n \in 1 .. Len(allRes) |-> TripleOf(allRes[n])]
      = [n \in 1 .. Len(PresentPairs) |-> ExpectedTriple(PresentPairs[n])]

C15_Witness ==
  /\ pipeline = "direct"
  /\ allPc = "returned"
  /\ Len(inputs) = 2
  /\ Len(allRes) = 3
  /\ ~inputs[2].Present[1]
  /\ [n \in 1 .. Len(allRes) |-> TripleOf(allRes[n])]
       = [n \in 1 .. Len(PresentPairs) |-> ExpectedTriple(PresentPairs[n])]

\* C17: the features of a sample are the k-th block of the packed observation
\* batch, k the rank of its lane among the present lanes (not the lane
\* index); the action comes from the k-th block of the packed action batch;
\* so features, action and advantage all belong to the sample's lane.
RankOf(b, l) == Cardinality({j \in 0 .. (l - 1) : b.Present[j + 1]})
Block(packed, n, k) ==
  SubSeq(packed, k * (Len(packed) \div n) + 1, (k + 1) * (Len(packed) \div n))

C17_SlicedByRank ==
  \A n \in 1 .. Len(rsSent) :
    LET s == rsSent[n]
        b == inputs[s.src[2] + 1]
        o == outputs[s.src[2] + 1]
        k == RankOf(b, s.src[1])
    IN /\ s.features = Block(b.Packed, NumPresent(b), k)
       /\ s.features = CellAt(s.src).features
       /\ IsFirstMax(Block(o.Packed, NumPresent(b), k), Action(s))
       /\ IsFirstMax(CellAt(s.src).dist, Action(s))
       /\ Advantage(s) = advantages[s.src[1]][s.src[2] + 1]

\* a sample of lane 1 taken from block 0, and one of lane 1 taken from block 1
C17_Witness ==
  /\ \E n \in 1 .. Len(rsSent) :
       /\ rsSent[n].src[1] = 1
       /\ RankOf(inputs[rsSent[n].src[2] + 1], 1) = 0
       /\ rsSent[n].features = CellAt(rsSent[n].src).features
  /\ \E n \in 1 .. Len(rsSent) :
       /\ rsSent[n].src[1] = 1
       /\ RankOf(inputs[rsSent[n].src[2] + 1], 1) = 1
       /\ rsSent[n].features = CellAt(rsSent[n].src).features

InSave == trainPc \in {"save", "unlock"}

C18_NoExitDuringSave ==
  /\ [](mainPc \in {"return", "exited"} => (trainLock = "main" /\ ~InSave))
  /\ [][trainLock = "main" =>
          (trainLock' = "main" /\ saves' = saves /\ ~InSave')]_vars

C18_Witness ==
  /\ mainPc = "exited"
  /\ trainLock = "main"
  /\ trainPc = "lock"
  /\ saves = 1

\* C20: no step of RolloutSamples, Uint8Samples or AllSamples changes the
\* rollout batch or the advantage table, and a sample, once sent by
\* RolloutSamples, is never changed (not by Uint8Samples reading it either).
C20_RolloutAndSamplesUnchanged ==
  [][/\ inputs' = inputs
     /\ outputs' = outputs
     /\ advantages' = advantages
     /\ \A k \in 1 .. Len(rsSent) : rsSent'[k] = rsSent[k]]_vars

\* a full uint8 run over data that the narrowing to 8 bits does change
C20_Witness ==
  /\ pipeline = "uint8"
  /\ allPc = "returned"
  /\ rsPc = "done"
  /\ u8Pc = "done"
  /\ Len(inputs) = 2
  /\ \E k \in 1 .. Len(allRes) : Feature(allRes[k], 0) # Feature(rsSent[k], 0)

\* the present pairs of the timesteps before t (0-based)
PairsBefore(t) == SelectSeq(PresentPairs, LAMBDA p : p[2] < t)
RSFailed == rsPc \in {"panic", "exit"}
ShortActions == Len(outputs) < Len(inputs)

\* C12: when the action stream ends before the observation stream,
\* RolloutSamples sends exactly the samples of the timesteps that have an
\* action batch, each with the action and advantage of its pair, and fails
\* on taking the first observation batch without one: it never finishes
\* normally, never goes past that batch, and sends nothing for that
\* timestep or a later one.
C12_FailsAtFirstMissingActionBatch ==
  ShortActions =>
    /\ rsPc # "done"
    /\ inPos <= Len(outputs) + 1
    /\ IsPrefix(SrcsOf(rsSent), PairsBefore(Len(outputs)))
    /\ \A k \in 1 .. Len(rsSent) :
         TripleOf(rsSent[k]) = ExpectedTriple(rsSent[k].src)
    /\ inPos = Len(outputs) + 1 =>
         /\ RSFailed
         /\ rsRes.closed
         /\ SrcsOf(rsSent) = PairsBefore(Len(outputs))

C12_Witness ==
  /\ ShortActions
  /\ Len(outputs) = 1
  /\ RSFailed
  /\ Len(rsSent) = NumLanes

\* C13 (as stated): once RolloutSamples has failed on a short action
\* stream or an advantage index out of range, AllSamples has not returned
\* and does not return.
C13_FailureNeverEndsStream == RSFailed => allPc # "returned"

EmptyAt(t) == NumPresent(inputs[t]) = 0
HasEmpty == \E t \in 1 .. Len(inputs) : EmptyAt(t)
FirstEmpty ==
  CHOOSE t \in 1 .. Len(inputs) : EmptyAt(t) /\ \A u \in 1 .. (t - 1) : ~EmptyAt(u)

\* C19: when some observation batch has no present lane, RolloutSamples
\* fails on taking the first such batch: it sends only samples of earlier
\* timesteps, never goes past that batch, and never finishes normally.
C19_FailsAtFirstEmptyBatch ==
  HasEmpty =>
    /\ rsPc # "done"
    /\ inPos <= FirstEmpty
    /\ IsPrefix(SrcsOf(rsSent), PairsBefore(FirstEmpty - 1))
    /\ \A k \in 1 .. Len(rsSent) : ~EmptyAt(rsSent[k].src[2] + 1)
    /\ inPos = FirstEmpty =>
         /\ RSFailed
         /\ rsRes.closed
         /\ SrcsOf(rsSent) = PairsBefore(FirstEmpty - 1)

C19_Witness ==
  /\ HasEmpty
  /\ FirstEmpty = 2
  /\ Len(inputs) = 2
  /\ RSFailed
  /\ Len(rsSent) = NumLanes

U8Failed == u8Pc \in {"panic", "exit"}
Mismatch == pipeline = "uint8" /\ numFeatures # DenseWidth(inputs)

====
